---- MODULE Spec2Model ----
(***************************************************************************)
(* A model of muviz: the audio feature extractor (muviz/audio/analyzer.py),*)
(* the three visualizers (muviz/visualizer/*.py) and the frame generator   *)
(* (muviz/renderer/frame_generator.py).                                    *)
(*                                                                         *)
(* Numbers.  The program computes in IEEE doubles; the model computes in   *)
(* exact integers and rationals:                                           *)
(*   - a sample is an integer number of tenths (SampleScale);              *)
(*   - a rational is a record [n, d] with d > 0, and [n |-> 0, d |-> 0]    *)
(*     stands for NaN;                                                     *)
(*   - an rms value is carried by its square (a rational), since the       *)
(*     square root of a rational is not one;                               *)
(*   - a spectrum magnitude is an integer number of units, EpsUnits of     *)
(*     which make the 1e-10 of get_frequency_bands;                        *)
(*   - a particle's life is an integer number of hundredths.               *)
(* int(frame_idx * (sample_rate / fps)) is modelled by the exact floor     *)
(* (frame_idx * sample_rate) \div fps; the two agree for every             *)
(* sample_rate, fps <= 12 and frame_idx < 40, which covers the inputs the  *)
(* model enumerates (they differ for some larger inputs, e.g. 22050, 33,   *)
(* 11, where the double product falls just below the integer).            *)
(***************************************************************************)
EXTENDS Integers, Sequences, FiniteSets, TLC

VARIABLES
    \* AudioAnalyzer
    audio,             \* None (<<>>) before load_audio, else <<the sequence of samples>>
    sample_rate,
    n_fft,
    duration,          \* rational, seconds
    \* VisualizerConfig
    fps,
    style,
    width,
    height,
    \* BaseVisualizer and its three subclasses
    frame_idx,
    particles,         \* ParticleVisualizer.particles
    waveform_history,  \* AbstractVisualizer.waveform_history
    drawn,             \* what the last render_frame drew on its image
    renders,           \* the number of render_frame calls that returned
    audio_data,        \* the dictionary the last render_frame was given
    skipped,           \* the number of those calls whose waveform had under 2 samples
    raised,            \* whether the last render_frame call raised instead of returning
    loud,              \* the length of the run of loud frames a caller began with
    \* FrameGenerator.generate_frames: where the call is, and its locals
    generator,
    \* video_writer: what the module could import, and VideoWriter.write_video
    MOVIEPY_AVAILABLE,
    CV2_AVAILABLE,
    writer,
    \* the random module: the run's stream of draws and the place in it
    rand_stream,
    rand_pos,
    \* the last feature call made on the analyzer and what it gave
    call

analyzerVars == <<audio, sample_rate, n_fft, duration>>
configVars == <<fps, style, width, height>>
visualizerVars ==
    <<frame_idx, particles, waveform_history, drawn, renders, audio_data, skipped,
      raised>>
writerVars == <<MOVIEPY_AVAILABLE, CV2_AVAILABLE, writer>>
callerVars == <<loud, generator, writerVars>>
randomVars == <<rand_stream, rand_pos>>
vars == <<audio, sample_rate, n_fft, duration, fps, style, width, height,
          frame_idx, particles, waveform_history, drawn, renders, audio_data, skipped,
          raised,
          loud, generator, MOVIEPY_AVAILABLE, CV2_AVAILABLE, writer,
          rand_stream, rand_pos, call>>

----------------------------------------------------------------------------
(* Bounds of the model *)

MaxLen == 4            \* longest audio buffer loaded
MaxFrameIdx == 4       \* largest frame index asked of the analyzer
MaxNumSamples == 3     \* largest num_samples asked of get_waveform
MaxMag == 2            \* largest magnitude (in units) the FFT is taken to give

Samples == {0, 1, 10}              \* sample values, in tenths
SampleRates == {1, 3, 4}
FpsValues == {1, 2}
FftSizes == {1, 2, 4}

----------------------------------------------------------------------------
(* Rationals *)

NaN == [n |-> 0, d |-> 0]
IsNaN(r) == r.d = 0
Rat(a, b) == [n |-> a, d |-> b]
Zero == Rat(0, 1)
One == Rat(1, 1)
\* r > s on floats: false as soon as one side is NaN
RGreater(r, s) == ~IsNaN(r) /\ ~IsNaN(s) /\ r.n * s.d > s.n * r.d
REqual(r, s) == ~IsNaN(r) /\ ~IsNaN(s) /\ r.n * s.d = s.n * r.d
\* r / s with s > 0 or NaN
RDiv(r, s) == IF IsNaN(r) \/ IsNaN(s) THEN NaN ELSE Rat(r.n * s.d, r.d * s.n)

Min2(a, b) == IF a < b THEN a ELSE b
Max2(a, b) == IF a > b THEN a ELSE b

RECURSIVE SumSeq(_)
SumSeq(s) == IF s = <<>> THEN 0 ELSE Head(s) + SumSeq(Tail(s))

\* s[a:b] of a Python sequence, 0 <= a, 0 <= b
Slice(s, a, b) ==
    LET hi == IF b < Len(s) THEN b ELSE Len(s)
    IN  IF a >= hi THEN <<>> ELSE SubSeq(s, a + 1, hi)

ZerosOf(k) == [i \in 1..k |-> 0]
\* np.pad(s, (0, k))
PadRight(s, k) == s \o ZerosOf(k)

\* np.mean: NaN (and a warning) on an empty array
np_mean(s) == IF s = <<>> THEN NaN ELSE Rat(SumSeq(s), Len(s))

----------------------------------------------------------------------------
(* AudioAnalyzer *)

None == <<>>
Some(b) == <<b>>
Buffer == audio[1]
SampleScale == 10
RmsGain == 5
EpsUnits == 2          \* the 1e-10 of get_frequency_bands, in magnitude units

\* int(frame_idx * samples_per_frame), samples_per_frame = sample_rate / fps
start_sample(idx) == (idx * sample_rate) \div fps
\* mutant: the samples per frame rounded up
samples_per_frame_ceil == (sample_rate + fps - 1) \div fps

\* int(samples_per_frame)
samples_per_frame_int == sample_rate \div fps
end_sample(idx) ==
    Min2(start_sample(idx) + samples_per_frame_int, Len(Buffer))

Ok(v) == [raised |-> FALSE, value |-> v]
Raised == [raised |-> TRUE, value |-> <<>>]

\* np.hanning(M)[k] = 0 exactly when k is the first or the last of M >= 2 points
HannIsZero(k, M) == M >= 2 /\ (k = 1 \/ k = M)
\* frame * np.hanning(n_fft) is all zero (frame of length n_fft, or any length
\* when n_fft = 1 and the window [1.] is broadcast)
WindowedIsZero(frame) ==
    \A k \in 1..Len(frame) : frame[k] = 0 \/ (n_fft # 1 /\ HannIsZero(k, n_fft))

\* np.abs(np.fft.rfft(x)) for x of length m: m \div 2 + 1 magnitudes, all zero
\* exactly when x is; the values of a non-zero transform are left open
rfft_abs(m, isZero) ==
    LET k == m \div 2 + 1
    IN  IF isZero THEN {ZerosOf(k)}
        ELSE {v \in [1..k -> 0..MaxMag] : \E i \in 1..k : v[i] > 0}

\* the outcomes of get_spectrum(frame_idx, fps)
get_spectrum(idx) ==
    IF audio = None THEN {Ok(ZerosOf(n_fft \div 2 + 1))}
    ELSE IF start_sample(idx) >= Len(Buffer)
    THEN {Ok(ZerosOf(n_fft \div 2 + 1))}
    ELSE LET sliced == Slice(Buffer, start_sample(idx), end_sample(idx))
             frame == IF Len(sliced) < n_fft
                      THEN PadRight(sliced, n_fft - Len(sliced))
                      ELSE sliced
         IN  \* a frame longer than the window cannot be broadcast against it
             \* (ValueError), unless the window has the single point [1.]
             IF Len(frame) > n_fft /\ n_fft # 1
             THEN {Raised}
             ELSE {Ok(v) : v \in rfft_abs(Len(frame), WindowedIsZero(frame))}

\* mutant: the short slice at the buffer end is returned without its padding
get_waveform_nopad(idx, num_samples) ==
    IF audio = None THEN ZerosOf(num_samples)
    ELSE IF start_sample(idx) >= Len(Buffer) THEN ZerosOf(num_samples)
    ELSE Slice(Buffer, start_sample(idx),
               Min2(start_sample(idx) + num_samples, Len(Buffer)))

get_waveform(idx, num_samples) ==
    IF audio = None THEN ZerosOf(num_samples)
    ELSE IF start_sample(idx) >= Len(Buffer) THEN ZerosOf(num_samples)
    ELSE LET waveform == Slice(Buffer, start_sample(idx),
                               Min2(start_sample(idx) + num_samples, Len(Buffer)))
         IN  IF Len(waveform) < num_samples
             THEN PadRight(waveform, num_samples - Len(waveform))
             ELSE waveform

\* mutant: the past-end test is > instead of >=
get_rms_energy_gt(idx) ==
    IF audio = None THEN Zero
    ELSE IF start_sample(idx) > Len(Buffer) THEN Zero
    ELSE LET frame == Slice(Buffer, start_sample(idx), end_sample(idx))
             mean == np_mean([k \in 1..Len(frame) |-> frame[k] * frame[k]])
             scaledSq == Rat(RmsGain * RmsGain * mean.n,
                             SampleScale * SampleScale * mean.d)
         IN  IF IsNaN(mean) THEN NaN
             ELSE IF RGreater(scaledSq, One) THEN One ELSE scaledSq

\* the square of get_rms_energy(frame_idx, fps); NaN for the mean of no sample
get_rms_energy(idx) ==
    IF audio = None THEN Zero
    ELSE IF start_sample(idx) >= Len(Buffer) THEN Zero
    ELSE LET frame == Slice(Buffer, start_sample(idx), end_sample(idx))
             mean == np_mean([k \in 1..Len(frame) |-> frame[k] * frame[k]])
             scaledSq == Rat(RmsGain * RmsGain * mean.n,
                             SampleScale * SampleScale * mean.d)
         IN  \* min(rms * 5, 1.0): Python's min keeps a NaN first argument
             IF IsNaN(mean) THEN NaN
             ELSE IF RGreater(scaledSq, One) THEN One ELSE scaledSq

\* Python's max(a, b, c, d): keeps the first unless a later one compares greater
RECURSIVE PyMaxFrom(_, _)
PyMaxFrom(m, rest) ==
    IF rest = <<>> THEN m
    ELSE PyMaxFrom(IF RGreater(Head(rest), m) THEN Head(rest) ELSE m, Tail(rest))
PyMax(s) == PyMaxFrom(Head(s), Tail(s))

\* mutant: the normaliser is max(low, mid, high), without the 1e-10 floor
frequency_bands_nofloor(spectrum) ==
    LET n == Len(spectrum)
        low_end == n \div 3
        mid_end == (2 * n) \div 3
        low == np_mean(Slice(spectrum, 0, low_end))
        mid == np_mean(Slice(spectrum, low_end, mid_end))
        high == np_mean(Slice(spectrum, mid_end, n))
        max_val == PyMax(<<low, mid, high>>)
    IN  IF n = 0 THEN <<Zero, Zero, Zero>>
        ELSE <<RDiv(low, max_val), RDiv(mid, max_val), RDiv(high, max_val)>>

\* the body of get_frequency_bands after its get_spectrum call
frequency_bands_of(spectrum) ==
    LET n == Len(spectrum)
        low_end == n \div 3
        mid_end == (2 * n) \div 3
        low == np_mean(Slice(spectrum, 0, low_end))
        mid == np_mean(Slice(spectrum, low_end, mid_end))
        high == np_mean(Slice(spectrum, mid_end, n))
        max_val == PyMax(<<low, mid, high, Rat(EpsUnits, 1)>>)
    IN  IF n = 0 THEN <<Zero, Zero, Zero>>
        ELSE <<RDiv(low, max_val), RDiv(mid, max_val), RDiv(high, max_val)>>

get_frequency_bands(idx) ==
    {IF s.raised THEN Raised ELSE Ok(frequency_bands_of(s.value)) :
        s \in get_spectrum(idx)}

\* load_audio: librosa.load gives the samples; duration = len / sample_rate
load_audio(buf) ==
    /\ audio' = Some(buf)
    /\ duration' = Rat(Len(buf), sample_rate)
    /\ UNCHANGED <<sample_rate, n_fft>>

----------------------------------------------------------------------------
(* VisualizerConfig, and what the visualizers are given *)

DefaultWidth == 1920
DefaultHeight == 1080

InitConfig(st) ==
    /\ style = st
    /\ width = DefaultWidth
    /\ height = DefaultHeight

\* audio_data, the dictionary of _get_audio_data; rms is carried by its square
Snapshot(rmsSq, bands, waveform, spectrum) ==
    [rms |-> rmsSq, frequency_bands |-> bands, waveform |-> waveform,
     spectrum |-> spectrum]

RECURSIVE ISqrtFrom(_, _)
ISqrtFrom(r, x) == IF (r + 1) * (r + 1) > x THEN r ELSE ISqrtFrom(r + 1, x)
\* int(k * v) for the v >= 0 whose square is the rational sq
IntTimesRoot(k, sq) == ISqrtFrom(0, (k * k * sq.n) \div sq.d)
\* int(k * v) for a rational v >= 0
IntTimes(k, v) == (k * v.n) \div v.d
\* low, mid, high = audio_data.get("frequency_bands", ...) takes three values,
\* and raises ValueError when given another number of them
Unpacks(snap) == Len(snap.frequency_bands) = 3
\* int() of a NaN raises ValueError
HasNaN(snap) ==
    \/ IsNaN(snap.rms)
    \/ \E i \in 1..3 : IsNaN(snap.frequency_bands[i])

----------------------------------------------------------------------------
(* The random module.  A run's draws are one stream; the model takes the     *)
(* stream from a bounded family, the cyclic repetitions of a short pattern,  *)
(* and a draw of random.random() is one of RandRes evenly spaced values.     *)

RandRes == 3
MaxPattern == 2

Streams(maxp) == UNION {[1..k -> 0..(RandRes - 1)] : k \in 1..maxp}
InitRandom(streams) ==
    /\ rand_stream \in streams
    /\ rand_pos = 0

DrawAt(pos) == rand_stream[(pos % Len(rand_stream)) + 1]
random_random(pos) == Rat(2 * DrawAt(pos) + 1, 2 * RandRes)
\* a + (b - a) * random()
random_uniform(pos, a, b) ==
    Rat(a * 2 * RandRes + (b - a) * (2 * DrawAt(pos) + 1), 2 * RandRes)
random_randint(pos, a, b) == a + (DrawAt(pos) * (b - a + 1)) \div RandRes
DrawsPerParticle == 5

----------------------------------------------------------------------------
(* BaseVisualizer *)

InitVisualizer ==
    /\ frame_idx = 0
    /\ particles = <<>>
    /\ waveform_history = <<>>
    /\ drawn = <<>>
    /\ renders = 0
    /\ skipped = 0
    /\ raised = FALSE
    /\ audio_data = Snapshot(Zero, <<Zero, Zero, Zero>>, <<>>, <<>>)

\* get_color gives int(c * (0.3 + 0.7 * intensity)) for the three channels c of
\* the theme's colour of the band: a function of (band, intensity), kept as the pair
get_color(freq_band, intensity) == [band |-> freq_band, intensity |-> intensity]

\* mutant: the counter is set back instead of advanced
advance_frame_reset(idx) == 0

advance_frame(idx) == idx + 1

----------------------------------------------------------------------------
(* ParticleVisualizer.  A particle's x, y, vx, vy after k updates are        *)
(* functions of where and how it was spawned:                                *)
(*   vx = speed * cos(angle) * 0.98^k,  x = x0 + speed * cos(angle) * (1 +   *)
(*   0.98 + ... + 0.98^(k-1)), and the same for y with sin;                  *)
(* the record carries x0, y0, angle (in turns), speed and updates = k.       *)

max_particles == 200
LifeFull == 100        \* life = 1.0, in hundredths
LifeStep == 2          \* life -= 0.02
SpawnFloor == 2
SpawnGain == 10
Spread == 50

Particle(x, y, angle, speed, color, size) ==
    [x0 |-> x, y0 |-> y, angle |-> angle, speed |-> speed, updates |-> 0,
     color |-> color, size |-> size, life |-> LifeFull]

\* one pass of the body of the loop of _spawn_particles, drawing from pos on
new_particle(pos, snap) ==
    LET low == snap.frequency_bands[1]
        mid == snap.frequency_bands[2]
        high == snap.frequency_bands[3]
        rand == random_random(pos)
        color == IF RGreater(Rat(33, 100), rand) THEN get_color("low", low)
                 ELSE IF RGreater(Rat(66, 100), rand) THEN get_color("mid", mid)
                 ELSE get_color("high", high)
        \* (mid + 0.2) * 5
        speed == Rat(5 * mid.n + mid.d, mid.d)
        angle == random_random(pos + 1)
        size == random_randint(pos + 2, 2, 6 + IntTimesRoot(6, snap.rms))
        x == random_uniform(pos + 3, (width \div 2) - Spread, (width \div 2) + Spread)
        y == random_uniform(pos + 4, (height \div 2) - Spread, (height \div 2) + Spread)
    IN  Particle(x, y, angle, speed, color, size)

\* mutant: the loop has no capacity test
RECURSIVE spawn_loop_nocap(_, _, _, _)
spawn_loop_nocap(ps, pos, k, snap) ==
    IF k = 0
    THEN [particles |-> ps, pos |-> pos]
    ELSE spawn_loop_nocap(Append(ps, new_particle(pos, snap)),
                          pos + DrawsPerParticle, k - 1, snap)

\* for _ in range(k): break at capacity, else append a new particle
RECURSIVE spawn_loop(_, _, _, _)
spawn_loop(ps, pos, k, snap) ==
    IF k = 0 \/ Len(ps) >= max_particles
    THEN [particles |-> ps, pos |-> pos]
    ELSE spawn_loop(Append(ps, new_particle(pos, snap)),
                    pos + DrawsPerParticle, k - 1, snap)

\* num_to_spawn = int(rms * 10) + 2
num_to_spawn(snap) == IntTimesRoot(SpawnGain, snap.rms) + SpawnFloor

_spawn_particles(ps, pos, snap) == spawn_loop(ps, pos, num_to_spawn(snap), snap)

\* mutant: dead particles are kept
_update_particles_keep(ps) ==
    [i \in 1..Len(ps) |->
        [ps[i] EXCEPT !.updates = @ + 1, !.life = @ - LifeStep]]

\* mutant: the particles move but do not age
_update_particles_noage(ps) ==
    [i \in 1..Len(ps) |-> [ps[i] EXCEPT !.updates = @ + 1]]

\* mutant: a particle is removed one update before its life runs out
_update_particles_early(ps) ==
    LET moved == [i \in 1..Len(ps) |->
                    [ps[i] EXCEPT !.updates = @ + 1, !.life = @ - LifeStep]]
    IN  SelectSeq(moved, LAMBDA p : p.life > LifeStep)

_update_particles(ps) ==
    LET moved == [i \in 1..Len(ps) |->
                    [ps[i] EXCEPT !.updates = @ + 1, !.life = @ - LifeStep]]
    IN  SelectSeq(moved, LAMBDA p : p.life > 0)

\* the disks drawn, in list order: where, how large, in what colour
\* (size * life is taken exactly; the double life differs from 1 - 0.02 k by a
\* few ulps, which can move int() by one where size * life is a whole number)
_draw_particles(ps) ==
    LET alive == SelectSeq(ps, LAMBDA p : p.life > 0)
    IN  [i \in 1..Len(alive) |->
            LET p == alive[i]
            IN  [shape |-> "disk",
                 x0 |-> p.x0, y0 |-> p.y0, angle |-> p.angle, speed |-> p.speed,
                 updates |-> p.updates,
                 size |-> Max2(1, (p.size * p.life) \div LifeFull),
                 color |-> p.color, life |-> p.life]]

\* the particle list and the stream position after one render_frame(snap)
particle_step(ps, pos, snap) ==
    LET spawned == _spawn_particles(ps, pos, snap)
    IN  [particles |-> _update_particles(spawned.particles),
         pos |-> spawned.pos % Len(rand_stream)]

\* ParticleVisualizer.render_frame
particle_render_frame(snap) ==
    LET next == particle_step(particles, rand_pos, snap)
    IN  /\ Unpacks(snap) /\ ~HasNaN(snap)
        /\ raised' = FALSE
        /\ particles' = next.particles
        /\ rand_pos' = next.pos
        /\ drawn' = _draw_particles(next.particles)
        /\ frame_idx' = advance_frame(frame_idx)
        /\ renders' = renders + 1
        /\ audio_data' = snap
        /\ UNCHANGED <<waveform_history, skipped, rand_stream>>

----------------------------------------------------------------------------
(* GeometricVisualizer *)

NumLines == 12
PolygonSides == 6

\* a * (p/10 + q/10 * v) for a rational v
ScaledBy(a, p, q, v) == Rat(a * (p * v.d + q * v.n), 10 * v.d)

\* round(k * v), halves to the even neighbour, for the v >= 0 whose square is sq
RoundTimesRoot(k, sq) ==
    LET n == IntTimesRoot(k, sq)
        twice == 4 * k * k * sq.n
        half == (2 * n + 1) * (2 * n + 1) * sq.d
    IN  IF twice > half THEN n + 1
        ELSE IF twice = half /\ n % 2 = 1 THEN n + 1
        ELSE n

\* mutant: the width is rounded to the nearest integer
stroke_width_round(rms) == Max2(1, RoundTimesRoot(8, rms))

\* width = max(1, int(rms * 8))
stroke_width(rms) == Max2(1, IntTimesRoot(8, rms))

_draw_circles(snap) ==
    LET max_radius == Min2(width, height) \div 3
        low == snap.frequency_bands[1]
        mid == snap.frequency_bands[2]
        high == snap.frequency_bands[3]
        circles ==
            <<[shape |-> "circle", radius |-> ScaledBy(max_radius, 3, 4, low),
               color |-> get_color("low", low),
               width |-> stroke_width(snap.rms)],
              [shape |-> "circle", radius |-> ScaledBy(max_radius, 4, 3, mid),
               color |-> get_color("mid", mid),
               width |-> stroke_width(snap.rms)],
              [shape |-> "circle", radius |-> ScaledBy(max_radius, 5, 3, high),
               color |-> get_color("high", high),
               width |-> stroke_width(snap.rms)]>>
    IN  SelectSeq(circles, LAMBDA c : RGreater(c.radius, Rat(10, 1)))

\* rotation = frame_idx * 0.02, base_radius = 50 + rms * 100
_draw_polygon(snap, idx) ==
    <<[shape |-> "polygon", sides |-> PolygonSides, rotation_steps |-> idx,
       rms |-> snap.rms, color |-> get_color("mid", snap.frequency_bands[2]),
       width |-> 3]>>

\* line i at angle 2 pi i / 12 + frame_idx * 0.01
_draw_radiating_lines(snap, idx) ==
    LET max_radius == Min2(width, height) \div 3
        high == snap.frequency_bands[3]
    IN  [i \in 1..NumLines |->
            [shape |-> "line", i |-> i - 1, angle_steps |-> idx,
             inner |-> Rat(max_radius * 6, 10),
             outer |-> ScaledBy(max_radius, 8, 4, high),
             color |-> get_color("high", high),
             width |-> Max2(1, IntTimes(4, high))]]

\* GeometricVisualizer.render_frame
geometric_render_frame(snap) ==
    /\ Unpacks(snap) /\ ~HasNaN(snap)
    /\ raised' = FALSE
    /\ drawn' = _draw_circles(snap) \o _draw_polygon(snap, frame_idx)
                   \o _draw_radiating_lines(snap, frame_idx)
    /\ frame_idx' = advance_frame(frame_idx)
    /\ renders' = renders + 1
    /\ audio_data' = snap
    /\ UNCHANGED <<particles, waveform_history, skipped, randomVars>>

----------------------------------------------------------------------------
(* AbstractVisualizer *)

max_history == 100
num_bars == 32
NumRings == 5

\* An entry of the history is an array object: its samples, and whether it is
\* the caller's own array (shared) or one the visualizer allocated.
\* mutant: the caller's array itself is stored
np_alias(waveform) == [samples |-> waveform, shared |-> TRUE]

\* waveform.copy(): a new array with the same samples
np_copy(waveform) == [samples |-> waveform, shared |-> FALSE]

\* mutant: the oldest waveform is never dropped
waveform_history_nopop(history, waveform) ==
    IF Len(waveform) < 2 THEN history ELSE Append(history, np_copy(waveform))

\* mutant: the newest stored waveform is dropped instead of the oldest
waveform_history_lifo(history, waveform) ==
    IF Len(waveform) < 2 THEN history
    ELSE LET appended == Append(history, np_copy(waveform))
         IN  IF Len(appended) > max_history
             THEN Append(SubSeq(history, 1, Len(history) - 1), np_copy(waveform))
             ELSE appended

\* the history after _draw_flowing_waveform
waveform_history_after(history, waveform) ==
    IF Len(waveform) < 2 THEN history
    ELSE LET appended == Append(history, np_copy(waveform))
         IN  IF Len(appended) > max_history THEN Tail(appended) ELSE appended

\* the number of x in range(0, min(len(wf), width), step)
NumPoints(wf) ==
    LET step == Max2(1, Len(wf) \div width)
        stop == Min2(Len(wf), width)
    IN  (stop + step - 1) \div step

\* one polyline per waveform of the history, oldest first, alpha = (i+1)/len
_draw_flowing_waveform(history, waveform, snap) ==
    IF Len(waveform) < 2 THEN <<>>
    ELSE LET h == waveform_history_after(history, waveform)
             lines == [i \in 1..Len(h) |->
                          [shape |-> "polyline", waveform |-> h[i].samples,
                           alpha |-> Rat(i, Len(h)), rms |-> snap.rms]]
         IN  SelectSeq(lines, LAMBDA l : NumPoints(l.waveform) > 1)

RECURSIVE BarsFrom(_, _, _)
BarsFrom(i, step, spectrum_slice) ==
    IF i >= num_bars \/ i * step >= Len(spectrum_slice) THEN <<>>
    ELSE <<[shape |-> "bar", i |-> i, magnitude |-> spectrum_slice[i * step + 1]]>>
         \o BarsFrom(i + 1, step, spectrum_slice)

_draw_frequency_bars(spectrum) ==
    IF Len(spectrum) < 2 THEN <<>>
    ELSE LET spectrum_slice == Slice(spectrum, 0, Len(spectrum) \div 4)
             step == Max2(1, Len(spectrum_slice) \div num_bars)
         IN  BarsFrom(0, step, spectrum_slice)

\* ring i has radius 50 + 40 i + int(30 mid) + int(sin(frame_idx * 0.1 + i) * 5 low)
_draw_circular_aura(snap, idx) ==
    LET low == snap.frequency_bands[1]
        mid == snap.frequency_bands[2]
        high == snap.frequency_bands[3]
    IN  [i \in 1..NumRings |->
            [shape |-> "ring", i |-> i - 1, base |-> 50 + (i - 1) * 40 + IntTimes(30, mid),
             pulse_steps |-> idx, low |-> low]]
        \o <<[shape |-> "glow", radius |-> 30 + IntTimes(40, high),
              color |-> get_color("high", high)]>>

\* AbstractVisualizer.render_frame
abstract_render_frame(snap) ==
    /\ Unpacks(snap) /\ ~HasNaN(snap)
    /\ raised' = FALSE
    /\ waveform_history' = waveform_history_after(waveform_history, snap.waveform)
    /\ drawn' = _draw_flowing_waveform(waveform_history, snap.waveform, snap)
                   \o _draw_frequency_bars(snap.spectrum)
                   \o _draw_circular_aura(snap, frame_idx)
    /\ frame_idx' = advance_frame(frame_idx)
    /\ renders' = renders + 1
    /\ skipped' = skipped + (IF Len(snap.waveform) < 2 THEN 1 ELSE 0)
    /\ audio_data' = snap
    /\ UNCHANGED <<particles, randomVars>>

----------------------------------------------------------------------------
(* FrameGenerator *)

DefaultNumSamples == 1024

\* generate_frames has not been called
NotRunning == [pc |-> "idle", num_frames |-> 0, frame_idx |-> 0, frames |-> <<>>]

\* write_video has not been called; encoder_calls lists the calls made to a
\* backend, with the number of frames passed
NotWriting == [pc |-> "idle", encoder_calls |-> <<>>]

InitCaller ==
    /\ loud = 0
    /\ generator = NotRunning
    /\ MOVIEPY_AVAILABLE = TRUE
    /\ CV2_AVAILABLE = TRUE
    /\ writer = NotWriting

\* the outcomes of _get_audio_data(frame_idx, fps); get_frequency_bands computes
\* the spectrum of the frame anew, and gets the one get_spectrum got
_get_audio_data(idx) ==
    {IF s.raised THEN Raised
     ELSE Ok(Snapshot(get_rms_energy(idx), frequency_bands_of(s.value),
                      get_waveform(idx, DefaultNumSamples), s.value)) :
        s \in get_spectrum(idx)}

\* the image render_frame returns: what was drawn, from which dictionary, by a
\* visualizer at which frame_idx
Image(snap, shapes, idx) == [audio_data |-> snap, drawn |-> shapes, frame_idx |-> idx]

\* self.visualizer.render_frame(audio_data), returning
render_frame(snap) ==
    /\ style = "geometric" => geometric_render_frame(snap)
    /\ style = "particle" => particle_render_frame(snap)
    /\ style = "abstract" => abstract_render_frame(snap)

\* render_frame raising ValueError: where it unpacks the bands, before anything
\* is drawn or stored, or at its first int() of a NaN, the abstract visualizer
\* having stored the waveform (of 2 or more samples) by then
render_frame_raises(snap) ==
    /\ IF Unpacks(snap) THEN HasNaN(snap) ELSE TRUE
    /\ raised' = TRUE
    /\ audio_data' = snap
    /\ waveform_history' =
          IF style = "abstract" /\ Unpacks(snap)
          THEN waveform_history_after(waveform_history, snap.waveform)
          ELSE waveform_history
    /\ UNCHANGED <<frame_idx, particles, drawn, renders, skipped, randomVars>>

\* mutant: one frame more, for the instant the audio ends at
generate_begin_inclusive ==
    generator' = [pc |-> "loop",
                  num_frames |-> IntTimes(fps, duration) + 1,
                  frame_idx |-> 0, frames |-> <<>>]

\* fps, duration, num_frames = int(duration * fps), frames = []
generate_begin ==
    generator' = [pc |-> "loop", num_frames |-> IntTimes(fps, duration),
                  frame_idx |-> 0, frames |-> <<>>]

\* one pass of the loop body that reaches frames.append(frame)
generate_frame(snap) ==
    /\ render_frame(snap)
    /\ generator' = [generator EXCEPT
                        !.frames = Append(@, Image(snap, drawn', frame_idx)),
                        !.frame_idx = @ + 1]

----------------------------------------------------------------------------
(* VideoWriter *)

\* _write_with_moviepy or _write_with_cv2 is called with the frames; the encoder
\* writes the file and returns, or fails
encode(backend, frames) ==
    \E outcome \in {"written", "EncodingFailure"} :
        writer' = [pc |-> outcome,
                   encoder_calls |-> Append(writer.encoder_calls,
                                            [backend |-> backend, frames |-> Len(frames)])]

\* mutant: the frames are handed to the backend without the test for none
write_video_unchecked(frames) ==
    IF MOVIEPY_AVAILABLE THEN encode("moviepy", frames)
    ELSE IF CV2_AVAILABLE THEN encode("cv2", frames)
    ELSE writer' = [writer EXCEPT !.pc = "RuntimeError"]

\* write_video(frames, audio, output_path)
write_video(frames) ==
    IF frames = <<>> THEN writer' = [writer EXCEPT !.pc = "ValueError"]
    ELSE IF MOVIEPY_AVAILABLE THEN encode("moviepy", frames)
    ELSE IF CV2_AVAILABLE THEN encode("cv2", frames)
    ELSE writer' = [writer EXCEPT !.pc = "RuntimeError"]

----------------------------------------------------------------------------
(* The feature calls, made one at a time on an analyzer *)

NoCall == [op |-> "none", frame_idx |-> 0, num_samples |-> 0, out |-> Ok(<<>>),
           spectrum |-> <<>>]
\* spectrum: what the call's own get_spectrum gave (get_frequency_bands only)
Call(op, f, num, out, spectrum) ==
    [op |-> op, frame_idx |-> f, num_samples |-> num, out |-> out,
     spectrum |-> spectrum]

Buffers == UNION {[1..k -> Samples] : k \in 0..MaxLen}

InitAnalyzer ==
    /\ audio = None
    /\ sample_rate \in SampleRates
    /\ n_fft \in FftSizes
    /\ duration = Zero

InitFeatures ==
    /\ InitAnalyzer
    /\ fps \in FpsValues
    /\ InitConfig("geometric")
    /\ InitVisualizer
    /\ InitCaller
    /\ InitRandom({<<0>>})
    /\ call = NoCall

LoadAudio ==
    /\ audio = None
    /\ generator.pc = "idle"
    /\ call = NoCall
    /\ \E buf \in Buffers : load_audio(buf)
    /\ UNCHANGED <<configVars, visualizerVars, randomVars, call, callerVars>>

CallSpectrum ==
    /\ call = NoCall
    /\ \E f \in 0..MaxFrameIdx : \E out \in get_spectrum(f) :
          call' = Call("get_spectrum", f, 0, out, <<>>)
    /\ UNCHANGED <<analyzerVars, configVars, visualizerVars, randomVars, callerVars>>

CallWaveform ==
    /\ call = NoCall
    /\ \E f \in 0..MaxFrameIdx : \E num \in 0..MaxNumSamples :
          call' = Call("get_waveform", f, num, Ok(get_waveform(f, num)), <<>>)
    /\ UNCHANGED <<analyzerVars, configVars, visualizerVars, randomVars, callerVars>>

CallRms ==
    /\ call = NoCall
    /\ \E f \in 0..MaxFrameIdx :
          call' = Call("get_rms_energy", f, 0, Ok(<<get_rms_energy(f)>>), <<>>)
    /\ UNCHANGED <<analyzerVars, configVars, visualizerVars, randomVars, callerVars>>

CallBands ==
    /\ call = NoCall
    /\ \E f \in 0..MaxFrameIdx : \E s \in get_spectrum(f) :
          call' = Call("get_frequency_bands", f, 0,
                       IF s.raised THEN Raised ELSE Ok(frequency_bands_of(s.value)),
                       s.value)
    /\ UNCHANGED <<analyzerVars, configVars, visualizerVars, randomVars, callerVars>>

\* the caller takes the result; the analyzer is as it was
Return ==
    /\ call # NoCall
    /\ call' = NoCall
    /\ UNCHANGED <<analyzerVars, configVars, visualizerVars, randomVars, callerVars>>

NextFeatures ==
    LoadAudio \/ CallSpectrum \/ CallWaveform \/ CallRms \/ CallBands \/ Return

SpecFeatures == InitFeatures /\ [][NextFeatures]_vars

----------------------------------------------------------------------------
(* The visualizers called directly, with any snapshot on each call *)

MaxDirectFrames == 3

\* rms 0, 1/2 and 1, by their squares
RmsLevels == {Zero, Rat(1, 4), One}
BandTriples == {<<Zero, Zero, Zero>>, <<One, Rat(1, 2), Zero>>}
WaveformInputs == {<<0>>, <<1, 0>>}
SpectrumInputs == {<<1>>, <<2, 0, 1, 0, 0, 0, 0, 0>>}
\* band arrays of three values, and shorter ones
BandInputs == BandTriples \cup {<<>>, <<One>>}
DirectSnapshots ==
    {Snapshot(r, b, w, s) :
        r \in RmsLevels, b \in BandInputs, w \in WaveformInputs, s \in SpectrumInputs}
ParticleSnapshots ==
    {Snapshot(r, b, <<0, 0>>, <<0, 0>>) : r \in RmsLevels, b \in BandTriples}

\* an analyzer built and not used
InitAnalyzerIdle ==
    /\ audio = None
    /\ sample_rate = 4
    /\ n_fft = 4
    /\ duration = Zero

Init ==
    /\ InitAnalyzerIdle
    /\ fps = 1
    /\ \E st \in {"geometric", "particle", "abstract"} : InitConfig(st)
    /\ InitVisualizer
    /\ InitCaller
    /\ InitRandom(Streams(1))
    /\ call = NoCall

RenderGeometric ==
    /\ style = "geometric"
    /\ frame_idx < MaxDirectFrames
    /\ \E snap \in DirectSnapshots : geometric_render_frame(snap)
    /\ UNCHANGED <<analyzerVars, configVars, call, callerVars>>

RenderParticle ==
    /\ style = "particle"
    /\ frame_idx < MaxDirectFrames
    /\ \E snap \in ParticleSnapshots : particle_render_frame(snap)
    /\ UNCHANGED <<analyzerVars, configVars, call, callerVars>>

RenderAbstract ==
    /\ style = "abstract"
    /\ frame_idx < MaxDirectFrames
    /\ \E snap \in DirectSnapshots : abstract_render_frame(snap)
    /\ UNCHANGED <<analyzerVars, configVars, call, callerVars>>

\* a call that raises; the visualizer is there to be called again
RenderRaises ==
    /\ frame_idx < MaxDirectFrames
    /\ \E snap \in DirectSnapshots : render_frame_raises(snap)
    /\ UNCHANGED <<analyzerVars, configVars, call, callerVars>>

Next == RenderGeometric \/ RenderParticle \/ RenderAbstract \/ RenderRaises

Spec == Init /\ [][Next]_vars

----------------------------------------------------------------------------
(* A particle visualizer given a run of loud frames, then any snapshot on    *)
(* each of its last calls                                                    *)

MaxLoudFrames == 52
MaxBurstFrames == 3

LoudSnapshot == Snapshot(One, <<One, Rat(1, 2), Zero>>, <<0, 0>>, <<0, 0>>)

InitParticle ==
    /\ InitAnalyzerIdle
    /\ fps = 1
    /\ InitConfig("particle")
    /\ InitVisualizer
    /\ InitCaller
    /\ InitRandom(Streams(1))
    /\ call = NoCall

RenderLoud ==
    /\ frame_idx < MaxLoudFrames
    /\ renders = loud
    /\ particle_render_frame(LoudSnapshot)
    /\ loud' = loud + 1
    /\ UNCHANGED <<analyzerVars, configVars, call, generator, writerVars>>

RenderBurst ==
    /\ renders < loud + MaxBurstFrames
    /\ \E snap \in ParticleSnapshots : particle_render_frame(snap)
    /\ UNCHANGED <<analyzerVars, configVars, call, callerVars>>

NextParticle == RenderLoud \/ RenderBurst

SpecParticle == InitParticle /\ [][NextParticle]_vars

----------------------------------------------------------------------------
(* A particle visualizer given the same snapshot on every call *)

MaxSteadyFrames == 60

SteadySnapshots ==
    {Snapshot(r, b, <<0, 0>>, <<0, 0>>) :
        r \in {Zero, Rat(1, 100), One}, b \in BandTriples}

InitSteady ==
    /\ InitAnalyzerIdle
    /\ fps = 1
    /\ InitConfig("particle")
    /\ InitRandom(Streams(MaxPattern))
    /\ frame_idx = 0
    /\ particles = <<>>
    /\ waveform_history = <<>>
    /\ drawn = <<>>
    /\ renders = 0
    /\ skipped = 0
    /\ raised = FALSE
    /\ InitCaller
    \* the snapshot the caller will pass, on every call
    /\ audio_data \in SteadySnapshots
    /\ call = NoCall

RenderSame ==
    /\ frame_idx < MaxSteadyFrames
    /\ particle_render_frame(audio_data)
    /\ UNCHANGED <<analyzerVars, configVars, call, callerVars>>

\* the caller goes on rendering: while frames remain, render_frame is called
\* again and returns, which is seen in frame_idx
NextCall == frame_idx < MaxSteadyFrames /\ frame_idx' = frame_idx + 1
SpecSteady == InitSteady /\ [][RenderSame]_vars /\ WF_frame_idx(NextCall)

----------------------------------------------------------------------------
(* An abstract visualizer given any snapshot on each call *)

MaxAbstractFrames == 103

AbstractSnapshots ==
    {Snapshot(Rat(1, 4), <<One, Rat(1, 2), Zero>>, w, s) :
        w \in WaveformInputs, s \in SpectrumInputs}

InitAbstract ==
    /\ InitAnalyzerIdle
    /\ fps = 1
    /\ InitConfig("abstract")
    /\ InitVisualizer
    /\ InitCaller
    /\ InitRandom({<<0>>})
    /\ call = NoCall

RenderFlow ==
    /\ frame_idx < MaxAbstractFrames
    /\ \E snap \in AbstractSnapshots : abstract_render_frame(snap)
    /\ UNCHANGED <<analyzerVars, configVars, call, callerVars>>

SpecAbstract == InitAbstract /\ [][RenderFlow]_vars

----------------------------------------------------------------------------
(* An abstract visualizer given a waveform that tells its call on each call,  *)
(* by a caller that writes into its array between the calls                   *)

MaxFifoFrames == 103
MaxVariedFrames == 3

\* the waveforms call k may be given: the first sample is k
TaggedWaveforms(k) ==
    {<<k, v>> : v \in (IF k < MaxVariedFrames THEN {0, 1} ELSE {0})}
\* what the caller leaves in its array after a call
Scribble == <<-1, -1>>

InitFifo ==
    /\ InitAnalyzerIdle
    /\ fps = 1
    /\ InitConfig("abstract")
    /\ InitVisualizer
    /\ InitCaller
    /\ InitRandom({<<0>>})
    /\ call = NoCall

RenderTagged ==
    /\ frame_idx < MaxFifoFrames
    /\ \E w \in TaggedWaveforms(frame_idx) :
          abstract_render_frame(Snapshot(Rat(1, 4), <<One, Rat(1, 2), Zero>>, w, <<1>>))
    /\ UNCHANGED <<analyzerVars, configVars, call, callerVars>>

\* the caller overwrites, in place, the array it passed to the last call; an
\* entry of the history that is this array changes with it
CallerWrites ==
    /\ renders >= 1
    /\ audio_data.waveform # Scribble
    /\ audio_data' = [audio_data EXCEPT !.waveform = Scribble]
    /\ waveform_history' =
          [i \in 1..Len(waveform_history) |->
              IF waveform_history[i].shared
              THEN [waveform_history[i] EXCEPT !.samples = Scribble]
              ELSE waveform_history[i]]
    /\ UNCHANGED <<frame_idx, particles, drawn, renders, skipped, raised>>
    /\ UNCHANGED <<analyzerVars, configVars, call, callerVars, randomVars>>

NextFifo == RenderTagged \/ CallerWrites

SpecFifo == InitFifo /\ [][NextFifo]_vars

----------------------------------------------------------------------------
(* A geometric visualizer of the default or of a small size, given any        *)
(* snapshot on each call                                                      *)

MaxGeometricFrames == 4

\* width and height: the defaults, and a size whose max_radius is 16
Sizes == {<<DefaultWidth, DefaultHeight>>, <<64, 48>>}
\* rms 0, 0.2, 0.5, 0.6 and 1, by their squares
GeometricRms == {Zero, Rat(1, 25), Rat(1, 4), Rat(9, 25), One}
GeometricBands == BandTriples \cup {<<Zero, One, One>>}
GeometricSnapshots ==
    {Snapshot(r, b, <<0, 0>>, <<0, 0>>) : r \in GeometricRms, b \in GeometricBands}

InitGeometric ==
    /\ InitAnalyzerIdle
    /\ fps = 1
    /\ style = "geometric"
    /\ \E size \in Sizes : width = size[1] /\ height = size[2]
    /\ InitVisualizer
    /\ InitCaller
    /\ InitRandom({<<0>>})
    /\ call = NoCall

RenderCircles ==
    /\ frame_idx < MaxGeometricFrames
    /\ \E snap \in GeometricSnapshots : geometric_render_frame(snap)
    /\ UNCHANGED <<analyzerVars, configVars, call, callerVars>>

SpecGeometric == InitGeometric /\ [][RenderCircles]_vars

----------------------------------------------------------------------------
(* Claims about the feature calls *)

Loaded == audio # None
AllZero(s) == \A i \in 1..Len(s) : s[i] = 0
IsFeatureCall == call.op \in {"get_spectrum", "get_waveform", "get_rms_energy"}
\* the call's result is the all-zero default of its kind, and nothing was raised
ZeroDefault ==
    /\ ~call.out.raised
    /\ call.op = "get_rms_energy" => call.out.value = <<Zero>>
    /\ call.op = "get_spectrum" => call.out.value = ZerosOf(n_fft \div 2 + 1)
    /\ call.op = "get_waveform" => call.out.value = ZerosOf(call.num_samples)
\* floor(bufferLength / samplesPerFrame) and its ceiling, samplesPerFrame real
FloorFrames == (Len(Buffer) * fps) \div sample_rate
CeilFrames == (Len(Buffer) * fps + sample_rate - 1) \div sample_rate

C5_NeverRaises ==
    /\ ~call.out.raised
    /\ call.op = "get_spectrum" => Len(call.out.value) = n_fft \div 2 + 1
    /\ call.op = "get_rms_energy" =>
          /\ ~IsNaN(call.out.value[1])
          /\ ~RGreater(Zero, call.out.value[1])
          /\ ~RGreater(call.out.value[1], One)

BandsCall == call.op = "get_frequency_bands" /\ ~call.out.raised
\* the mean of spectrum[a:b] is at least the 1e-10 floor
ThirdAtLeastEps(sp, a, b) == b > a /\ SumSeq(Slice(sp, a, b)) >= EpsUnits * (b - a)
LoudEnough(sp) ==
    LET n == Len(sp)
    IN  \/ ThirdAtLeastEps(sp, 0, n \div 3)
        \/ ThirdAtLeastEps(sp, n \div 3, (2 * n) \div 3)
        \/ ThirdAtLeastEps(sp, (2 * n) \div 3, n)
MaxIsOne(b) ==
    /\ \E i \in 1..3 : REqual(b[i], One)
    /\ \A i \in 1..3 : ~IsNaN(b[i]) /\ ~RGreater(b[i], One)

\* C7: whatever the spectrum (all-zero, of length 1 or 2, ...), the bands have
\* maximum 1.0, or are (0,0,0) when the spectrum is empty.
C7_Original ==
    BandsCall =>
        \/ MaxIsOne(call.out.value)
        \/ Len(call.spectrum) = 0 /\ call.out.value = <<Zero, Zero, Zero>>

\* what does hold, of a spectrum of 3 or more magnitudes (no third is empty): the
\* bands are numbers in [0,1]; their maximum is 1.0 exactly when some third's mean
\* reaches the 1e-10 floor, and an all-zero spectrum gives (0,0,0).
C7_BandsNormalized ==
    (BandsCall /\ Len(call.spectrum) >= 3) =>
        LET b == call.out.value
        IN  /\ \A i \in 1..3 :
                  ~IsNaN(b[i]) /\ ~RGreater(Zero, b[i]) /\ ~RGreater(b[i], One)
            /\ MaxIsOne(b) <=> LoudEnough(call.spectrum)
            /\ AllZero(call.spectrum) => \A i \in 1..3 : REqual(b[i], Zero)

\* a past-end frame of a loaded buffer: all-zero spectrum, bands (0,0,0)
C7_Witness ==
    /\ BandsCall /\ Loaded /\ ~AllZero(Buffer)
    /\ call.frame_idx >= CeilFrames
    /\ Len(call.spectrum) = 3 /\ AllZero(call.spectrum)
    /\ \A i \in 1..3 : REqual(call.out.value[i], Zero)

----------------------------------------------------------------------------
(* generate_frames called once, on an analyzer with or without audio *)

Styles == {"geometric", "particle", "abstract"}

InitGenerate ==
    /\ InitAnalyzer
    /\ fps \in FpsValues
    /\ \E st \in Styles : InitConfig(st)
    /\ InitVisualizer
    /\ InitCaller
    /\ InitRandom({<<0>>})
    /\ call = NoCall

GenerateBegin ==
    /\ generator.pc = "idle"
    /\ generate_begin
    /\ UNCHANGED <<analyzerVars, configVars, visualizerVars, randomVars, call, loud, writerVars>>

\* a pass of the loop in which no call raises
GenerateFrame ==
    /\ generator.pc = "loop"
    /\ generator.frame_idx < generator.num_frames
    /\ \E data \in _get_audio_data(generator.frame_idx) :
          /\ ~data.raised
          /\ generate_frame(data.value)
    /\ UNCHANGED <<analyzerVars, configVars, call, loud, writerVars>>

\* a pass of the loop in which get_spectrum or render_frame raises: the
\* exception leaves generate_frames, which returns nothing
GenerateRaise ==
    /\ generator.pc = "loop"
    /\ generator.frame_idx < generator.num_frames
    /\ \E data \in _get_audio_data(generator.frame_idx) :
          \/ data.raised /\ UNCHANGED <<visualizerVars, randomVars>>
          \/ ~data.raised /\ render_frame_raises(data.value)
    /\ generator' = [generator EXCEPT !.pc = "raised"]
    /\ UNCHANGED <<analyzerVars, configVars, call, loud, writerVars>>

\* range(num_frames) is exhausted: return frames
GenerateReturn ==
    /\ generator.pc = "loop"
    /\ generator.frame_idx = generator.num_frames
    /\ generator' = [generator EXCEPT !.pc = "returned"]
    /\ UNCHANGED <<analyzerVars, configVars, visualizerVars, randomVars, call, loud, writerVars>>

NextGenerate ==
    LoadAudio \/ GenerateBegin \/ GenerateFrame \/ GenerateRaise \/ GenerateReturn

SpecGenerate == InitGenerate /\ [][NextGenerate]_vars

----------------------------------------------------------------------------
(* The run of cli.main: frames generated, then written, with whichever        *)
(* backends the video_writer module could import                              *)

InitWrite ==
    /\ audio = None
    /\ sample_rate \in SampleRates
    /\ n_fft \in FftSizes
    /\ duration = Zero
    /\ fps = 1
    /\ InitConfig("geometric")
    /\ InitVisualizer
    /\ loud = 0
    /\ generator = NotRunning
    /\ MOVIEPY_AVAILABLE \in BOOLEAN
    /\ CV2_AVAILABLE \in BOOLEAN
    /\ writer = NotWriting
    /\ InitRandom({<<0>>})
    /\ call = NoCall

\* writer.write_video(frames, analyzer.audio, output), once generate_frames
\* has returned the frames
WriteVideo ==
    /\ generator.pc = "returned"
    /\ writer.pc = "idle"
    /\ write_video(generator.frames)
    /\ UNCHANGED <<analyzerVars, configVars, visualizerVars, randomVars, call, loud,
                   generator, MOVIEPY_AVAILABLE, CV2_AVAILABLE>>

NextWrite ==
    \/ LoadAudio \/ GenerateBegin \/ GenerateFrame \/ GenerateRaise \/ GenerateReturn
    \/ WriteVideo

SpecWrite == InitWrite /\ [][NextWrite]_vars

----------------------------------------------------------------------------
(* generate_frames called once on silent audio, of lengths and at frame rates  *)
(* that make the samples per frame whole, fractional and less than one         *)

MaxSilentLen == 8
RequestFps == {1, 2, 3}

InitRequests ==
    /\ audio = None
    /\ sample_rate \in SampleRates
    /\ n_fft = 4
    /\ duration = Zero
    /\ fps \in RequestFps
    /\ InitConfig("geometric")
    /\ InitVisualizer
    /\ InitCaller
    /\ InitRandom({<<0>>})
    /\ call = NoCall

LoadSilence ==
    /\ audio = None
    /\ generator.pc = "idle"
    /\ \E k \in 0..MaxSilentLen : load_audio(ZerosOf(k))
    /\ UNCHANGED <<configVars, visualizerVars, randomVars, call, callerVars>>

NextRequests ==
    LoadSilence \/ GenerateBegin \/ GenerateFrame \/ GenerateRaise \/ GenerateReturn

SpecRequests == InitRequests /\ [][NextRequests]_vars

----------------------------------------------------------------------------
(* Claims about the visualizers *)

\* C1: after any sequence of render_frame calls the particle visualizer holds at
\* most max_particles (200) particles.
C1_ParticleCap == Len(particles) <= max_particles

\* the capacity is met by a call that is not one of the loud run
C1_Witness ==
    /\ Len(particles) = max_particles
    /\ renders > loud
    /\ audio_data.rms = Rat(1, 4)

\* C2 as stated: after every render_frame of the abstract visualizer the history
\* holds min(frameIndex + 1, 100) waveforms, frameIndex = frame_idx - 1 being the
\* index of the frame just rendered.
C2_Original ==
    (style = "abstract" /\ renders >= 1) =>
        Len(waveform_history) = Min2((frame_idx - 1) + 1, max_history)

\* C2, amended: the history holds min(n, 100) waveforms, n being the number of
\* render_frame calls so far whose waveform had 2 or more samples; that is
\* min(frameIndex + 1, 100) as long as no call was given a shorter waveform.
C2_HistoryLength ==
    style = "abstract" =>
        Len(waveform_history) = Min2(frame_idx - skipped, max_history)

C2_Witness ==
    /\ style = "abstract"
    /\ skipped = 1
    /\ frame_idx = max_history + 2
    /\ Len(waveform_history) = max_history

\* C3: frame_idx starts at 0, and every step that changes it is a completed
\* render_frame call that adds exactly 1 to it (so it never decreases or resets).
C3_FrameIdx ==
    /\ frame_idx = 0 /\ renders = 0
    /\ [][frame_idx' = frame_idx + 1 /\ renders' = renders + 1]_<<frame_idx, renders>>

C3_Witness ==
    /\ style = "abstract"
    /\ frame_idx = MaxDirectFrames
    /\ renders = MaxDirectFrames
    /\ skipped > 0

\* the updates a particle is still in the list after: those k with 1 - 0.02 k > 0
UpdatesAlive == (LifeFull - 1) \div LifeStep
SteadyCount == SpawnFloor * UpdatesAlive

\* C9: rendering every frame with rms = 0 from a fresh particle visualizer, the
\* particle count is never zero after a call, never above the steady-state value
\* 2 * 49 = 98, reaches it and stays at it.
C9_SteadyCount ==
    (audio_data.rms = Zero) =>
        /\ [](renders >= 1 => (Len(particles) > 0 /\ Len(particles) <= SteadyCount))
        /\ <>[](Len(particles) = SteadyCount)

C9_Witness ==
    /\ audio_data.rms = Zero
    /\ frame_idx = MaxSteadyFrames
    /\ Len(particles) = SteadyCount

Expired(ps) == Cardinality({i \in 1..Len(ps) : ps[i].life <= LifeStep})

----------------------------------------------------------------------------
(* Claims about the frame generator *)

\* floor(D * fps), D the length of the loaded audio in seconds
NumFrames == IF audio = None THEN 0 ELSE (Len(Buffer) * fps) \div sample_rate

\* the frames built so far are those of 0, 1, ..., in this order, each rendered
\* once from the snapshot of its index, and the list returned has them all
FramesInOrder ==
    generator.pc \in {"loop", "returned"} =>
        /\ generator.num_frames = NumFrames
        /\ Len(generator.frames) = generator.frame_idx
        /\ renders = generator.frame_idx
        /\ \A k \in 1..Len(generator.frames) :
              /\ Ok(generator.frames[k].audio_data) \in _get_audio_data(k - 1)
              /\ generator.frames[k].frame_idx = k - 1
        /\ generator.pc = "returned" => Len(generator.frames) = NumFrames

\* C8: generate_frames computes numFrames = floor(D * fps), renders the frames
\* 0 .. numFrames-1 in ascending order, each once from the snapshot of its index,
\* and returns exactly numFrames images, the k-th rendered from snapshot k.
C8_GenerateFrames ==
    /\ generator.pc # "raised"
    /\ FramesInOrder

----------------------------------------------------------------------------
(* Claims about the video writer *)

WriteVideoCalled == writer.pc # "idle"

\* C11: when generate_frames has returned no frame (no audio, or audio shorter
\* than one frame), write_video raises its ValueError and no encoder backend has
\* been called, whichever backends are available.
C11_EmptyFrames ==
    (WriteVideoCalled /\ generator.frames = <<>>) =>
        /\ writer.pc = "ValueError"
        /\ writer.encoder_calls = <<>>

\* audio was loaded, too short for one frame, and a backend was there to call
C11_Witness ==
    /\ WriteVideoCalled
    /\ Loaded /\ Len(Buffer) > 0
    /\ generator.pc = "returned" /\ generator.num_frames = 0 /\ generator.frames = <<>>
    /\ MOVIEPY_AVAILABLE
    /\ writer.pc = "ValueError"

----------------------------------------------------------------------------
(* Claims about short arrays *)

RenderCalled == renders >= 1 \/ raised
HasShortArray(snap) ==
    \/ Len(snap.spectrum) < 2
    \/ Len(snap.waveform) < 2
    \/ Len(snap.frequency_bands) < 2
Shapes(kind) == {i \in 1..Len(drawn) : drawn[i].shape = kind}

\* the layer fed by a short array is left out, the others are drawn
LayersSkipped ==
    /\ Len(drawn) > 0
    /\ style = "abstract" =>
          /\ Len(audio_data.waveform) < 2 => Shapes("polyline") = {}
          /\ Len(audio_data.spectrum) < 2 => Shapes("bar") = {}
          /\ Shapes("ring") # {}

\* C12: in the three styles a render_frame call given a spectrum, waveform or
\* band array of fewer than 2 elements does not raise: it skips the layer of
\* that array, draws the others, returns, and has incremented frame_idx.
C12_ShortArrays ==
    (RenderCalled /\ HasShortArray(audio_data)) =>
        /\ ~raised
        /\ frame_idx = renders
        /\ LayersSkipped

\* the same, of the calls whose band array has its three values
ShortSpectrumOrWaveform ==
    (RenderCalled /\ HasShortArray(audio_data) /\ Unpacks(audio_data)) =>
        /\ ~raised
        /\ frame_idx = renders
        /\ LayersSkipped

----------------------------------------------------------------------------
(* Claims about a particle's life *)

Aged(p) == [p EXCEPT !.life = @ - LifeStep, !.updates = @ + 1]
Survivors(ps) == SelectSeq(ps, LAMBDA p : p.life > LifeStep)

\* C13: a particle starts with life 1.0 and loses 0.02 in every render_frame call
\* it is in the set for, the call that spawned it included; it is removed by the
\* update that brings its life to 0 or below and by no earlier one.  So after
\* every call each particle has 0 < life <= 1, and none has had 50 updates.
C13_ParticleLife ==
    /\ [](\A i \in 1..Len(particles) :
            /\ particles[i].life = LifeFull - LifeStep * particles[i].updates
            /\ particles[i].updates >= 1
            /\ 0 < particles[i].life /\ particles[i].life <= LifeFull
            /\ particles[i].updates < LifeFull \div LifeStep)
    /\ [][LET kept == Survivors(particles)
          IN  /\ Len(particles') >= Len(kept)
              /\ \A i \in 1..Len(kept) : particles'[i] = Aged(kept[i])
              /\ \A j \in (Len(kept) + 1)..Len(particles') :
                    particles'[j].life = LifeFull - LifeStep /\ particles'[j].updates = 1
       ]_vars

\* a particle on its last frame, in a call after the loud run
C13_Witness ==
    /\ renders > loud
    /\ \E i \in 1..Len(particles) :
          particles[i].updates = UpdatesAlive /\ particles[i].life = LifeStep

----------------------------------------------------------------------------
(* Claims about the waveform history *)

StoredSamples(history) == [i \in 1..Len(history) |-> history[i].samples]

\* C14: the history is a FIFO of copies.  After the calls 0 .. k it holds the
\* waveforms of the last min(k+1, 100) calls in arrival order; a call appends its
\* waveform and, at 100 entries, evicts the oldest one; what the caller writes
\* into its array after a call changes no stored entry.
C14_HistoryFifo ==
    /\ [](/\ Len(waveform_history) = Min2(frame_idx, max_history)
          /\ \A i \in 1..Len(waveform_history) :
                waveform_history[i].samples[1] = frame_idx - Len(waveform_history) + i - 1)
    /\ [][LET old == StoredSamples(waveform_history)
              new == StoredSamples(waveform_history')
          IN  IF renders' = renders + 1
              THEN new = IF Len(old) < max_history
                         THEN Append(old, audio_data'.waveform)
                         ELSE Append(Tail(old), audio_data'.waveform)
              ELSE new = old
       ]_vars

\* the history is full, has evicted, and the caller has written into its array
C14_Witness ==
    /\ frame_idx > max_history + 1
    /\ Len(waveform_history) = max_history
    /\ audio_data.waveform = Scribble
    /\ waveform_history[max_history].samples = <<frame_idx - 1, 0>>
    /\ waveform_history[1].samples[1] = frame_idx - max_history

----------------------------------------------------------------------------
(* Claims about the circles of the geometric style *)

MaxRadius == Min2(width, height) \div 3
Circles == SelectSeq(drawn, LAMBDA c : c.shape = "circle")
\* maxRadius * (p/10 + q/10 * band)
RadiusOf(p, q, band) ==
    Rat(MaxRadius * (p * band.d + q * band.n), 10 * band.d)
\* the three radii, of low, mid and high
Radii ==
    <<RadiusOf(3, 4, audio_data.frequency_bands[1]),
      RadiusOf(4, 3, audio_data.frequency_bands[2]),
      RadiusOf(5, 3, audio_data.frequency_bands[3])>>
\* w = max(1, floor(8 rms)), rms given by its square
IsTruncatedWidth(w, sq) ==
    /\ w >= 1
    /\ w > 1 => w * w * sq.d <= 64 * sq.n
    /\ (w + 1) * (w + 1) * sq.d > 64 * sq.n

\* C15 as stated: the three circles are drawn with width max(1, round(rms * 8))
\* and radii maxRadius * (0.3 + 0.4 low), (0.4 + 0.3 mid), (0.5 + 0.3 high).
C15_Original ==
    renders >= 1 =>
        /\ Len(Circles) = 3
        /\ \A i \in 1..Len(Circles) :
              /\ Circles[i].width = Max2(1, RoundTimesRoot(8, audio_data.rms))
              /\ REqual(Circles[i].radius, Radii[i])

\* C15, amended: the circles drawn are those of the three radii maxRadius *
\* (0.3 + 0.4 low), (0.4 + 0.3 mid), (0.5 + 0.3 high) that exceed 10, in this
\* order, each with width max(1, int(rms * 8)), the product truncated; with
\* rms = 0 and all bands 0, at the default size, they are the three, of width 1.
C15_CircleWidth ==
    renders >= 1 =>
        /\ LET wanted == SelectSeq(Radii, LAMBDA r : RGreater(r, Rat(10, 1)))
           IN  /\ Len(Circles) = Len(wanted)
               /\ \A i \in 1..Len(Circles) : REqual(Circles[i].radius, wanted[i])
        /\ \A i \in 1..Len(Circles) : IsTruncatedWidth(Circles[i].width, audio_data.rms)
        /\ (/\ audio_data.rms = Zero
            /\ audio_data.frequency_bands = <<Zero, Zero, Zero>>
            /\ width = DefaultWidth /\ height = DefaultHeight) =>
              /\ Len(Circles) = 3
              /\ \A i \in 1..3 : Circles[i].width = 1
              /\ \A i \in 1..3 : REqual(Circles[i].radius, Rat(MaxRadius * (i + 2), 10))

\* rms = 0.6: 4.8 is truncated to 4, and the three circles are drawn
C15_Witness ==
    /\ renders >= 1
    /\ audio_data.rms = Rat(9, 25)
    /\ Len(Circles) = 3
    /\ Circles[1].width = 4

----------------------------------------------------------------------------
(* Claims about the frames generate_frames requests *)

Generating == generator.pc \in {"loop", "returned", "raised"}

\* C16: with audio of L samples loaded, every frame index generate_frames
\* requests, 0 <= frameIdx < floor(duration * fps), has its start sample
\* floor(frameIdx * sampleRate / fps) before L: no generated frame takes the
\* past-end path of the feature calls.
C16_RequestsInBuffer ==
    (Loaded /\ Generating) =>
        \A k \in 0..(generator.num_frames - 1) : start_sample(k) < Len(Buffer)

\* frames of one and a third samples each, the last one begun and rendered
C16_Witness ==
    /\ Loaded /\ generator.pc = "returned"
    /\ sample_rate = 4 /\ fps = 3
    /\ Len(Buffer) = 6
    /\ Len(generator.frames) = 4
    /\ start_sample(3) = 4

----------------------------------------------------------------------------
(* Claims about the sample windows *)

WindowCall == Loaded /\ call.op \in {"get_spectrum", "get_rms_energy"}

\* C17: the windows [start, end) of get_spectrum and get_rms_energy, start =
\* floor(frameIdx * sampleRate / fps), end = min(start + floor(sampleRate /
\* fps), bufferLength), of consecutive frame indices never overlap: the next
\* frame starts at or after the end of this one, and start never decreases.
C17_WindowsDisjoint ==
    Loaded =>
        \A f \in 0..MaxFrameIdx :
            /\ start_sample(f + 1) >= end_sample(f)
            /\ start_sample(f + 1) >= start_sample(f)

\* a call on frame 1 at one and a half samples per frame: its window [1, 2)
\* begins where that of frame 0 ends, and that of frame 2 begins at 3
C17_Witness ==
    /\ WindowCall
    /\ call.frame_idx = 1
    /\ sample_rate = 3 /\ fps = 2
    /\ Len(Buffer) = MaxLen
    /\ start_sample(1) = end_sample(0)
    /\ end_sample(1) = 2
    /\ start_sample(2) = 3

====
